---- MODULE Spec2Model ----
(***************************************************************************)
(* Hypercave: the cache stores of src/src/cache.js (persistent TTL store   *)
(* over localStorage, in-memory session store, permanent resource          *)
(* registry), the manifest builders of src/vite.config.js and the          *)
(* controller of src/src/main.js that wires wallet and modal events to     *)
(* them.                                                                   *)
(***************************************************************************)
EXTENDS Integers, Sequences, FiniteSets, Bags, TLC

VARIABLES
  now,           \* Date.now()
  localStorage,  \* window.localStorage: sequence of [key, text], key(i) = localStorage[i+1].key
  data,          \* sessionCache.data: Map key -> {value, expiry}
  event,         \* the call handled last: [op, key, fault, threw]
  args,          \* the arguments of that call the claims read back
  ret,           \* what that call returned
  manifest,      \* the text returned by the last manifest builder call
  currentAccount, \* main.js: the connected account, null when there is none
  modalUI,       \* the modal: [visible, mode, loading, balances]
  status,        \* the status line of the page: "hidden", "info" or "error"
  tasks          \* the async functions of main.js suspended at an await, a bag

ctl == <<currentAccount, modalUI, status, tasks>>

vars == <<now, localStorage, data, event, args, ret, manifest,
          currentAccount, modalUI, status, tasks>>

(***************************************************************************)
(* Bounds of the model.                                                    *)
(***************************************************************************)
MaxTime == 2
MaxBatch == 2
MaxRes == 2

(***************************************************************************)
(* JavaScript values. Primitives are tagged records; an object is a        *)
(* function from property names to values.                                 *)
(***************************************************************************)
Null == [t |-> "null"]
Undefined == [t |-> "undefined"]
Infinity == [t |-> "inf"]
Num(n) == [t |-> "num", n |-> n]
Str(s) == [t |-> "str", s |-> s]

IsObject(v) == "t" \notin DOMAIN v

\* obj[name], undefined when the property is missing
Prop(obj, name) == IF name \in DOMAIN obj THEN obj[name] ELSE Undefined

\* a || b
Or(a, b) == IF a \in {Null, Undefined, Str(""), Num(0)} THEN b ELSE a

\* Date.now() + ttlMs
Plus(t, ttlMs) == IF ttlMs = Infinity THEN Infinity ELSE Num(t + ttlMs.n)

\* Date.now() > x, with x converted to a number: null is 0, undefined and
\* objects are NaN (every comparison with NaN is false)
Greater(t, x) ==
  IF IsObject(x) THEN FALSE
  ELSE CASE x.t = "num" -> t > x.n
         [] x.t = "null" -> t > 0
         [] x.t = "inf" -> FALSE
         [] OTHER -> FALSE

(***************************************************************************)
(* JSON. A storage text is modelled by the tree it parses to, [json |-> v],*)
(* or as [raw |-> s] when it is no JSON at all. JSON has no Infinity and   *)
(* no undefined: stringify writes null for the first and drops properties  *)
(* holding the second.                                                     *)
(***************************************************************************)
RECURSIVE ToJson(_)
ToJson(v) ==
  IF IsObject(v)
    THEN [k \in {p \in DOMAIN v : v[p] # Undefined} |-> ToJson(v[k])]
    ELSE IF v = Infinity THEN Null ELSE v

JSON_stringify(v) == [json |-> ToJson(v)]

\* JSON.parse: [ok, v]; ok = FALSE stands for the SyntaxError it throws
JSON_parse(text) ==
  IF "json" \in DOMAIN text THEN [ok |-> TRUE, v |-> text.json]
  ELSE [ok |-> FALSE, v |-> Undefined]

(***************************************************************************)
(* localStorage.                                                           *)
(***************************************************************************)
CACHE_PREFIX == "hypercave_"
RESOURCE_CACHE_KEY == "resource_cache"

StorageKeys(ls) == {ls[i].key : i \in 1..Len(ls)}

getItem(ls, key) ==
  IF key \in StorageKeys(ls)
    THEN (CHOOSE e \in {ls[i] : i \in 1..Len(ls)} : e.key = key).text
    ELSE Null

setItem(ls, key, text) ==
  IF key \in StorageKeys(ls)
    THEN [i \in 1..Len(ls) |-> IF ls[i].key = key THEN [key |-> key, text |-> text] ELSE ls[i]]
    ELSE Append(ls, [key |-> key, text |-> text])

DifferentKey(e, key) == e.key # key

removeItem(ls, key) ==
  LET Keep(e) == DifferentKey(e, key) IN SelectSeq(ls, Keep)

startsWith(s, prefix) ==
  /\ Len(s) >= Len(prefix)
  /\ SubSeq(s, 1, Len(prefix)) = prefix

(***************************************************************************)
(* cache: the persistent TTL store. Each operation yields the value it     *)
(* returns, the storage it leaves and whether an exception left it.        *)
(***************************************************************************)
Outcome(r, ls, threw) == [ret |-> r, ls |-> ls, threw |-> threw]

\* faulty variant of cacheExpired: the comparison written >=
cacheExpiredAtBoundary(t, expiry) ==
  expiry # Infinity /\ (Greater(t, expiry) \/ expiry = Num(t))

\* expiry !== Infinity && Date.now() > expiry
cacheExpired(t, expiry) == expiry # Infinity /\ Greater(t, expiry)

\* faulty variant of cache_get: null for an expired entry, which stays stored
cache_getLeavingExpired(ls, t, key, readThrows) ==
  LET item == getItem(ls, CACHE_PREFIX \o key)
      parsed == JSON_parse(item)
  IN  IF readThrows \/ item = Null THEN Outcome(Null, ls, FALSE)
      ELSE IF ~parsed.ok \/ ~IsObject(parsed.v) THEN Outcome(Null, ls, FALSE)
      ELSE IF cacheExpired(t, Prop(parsed.v, "expiry")) THEN Outcome(Null, ls, FALSE)
      ELSE Outcome(Prop(parsed.v, "value"), ls, FALSE)

cache_get(ls, t, key, readThrows) ==
  LET item == getItem(ls, CACHE_PREFIX \o key)
      parsed == JSON_parse(item)
  IN  IF readThrows THEN Outcome(Null, ls, FALSE)              \* catch
      ELSE IF item = Null THEN Outcome(Null, ls, FALSE)         \* !item
      ELSE IF ~parsed.ok THEN Outcome(Null, ls, FALSE)          \* catch
      ELSE IF parsed.v \in {Null, Undefined} THEN Outcome(Null, ls, FALSE)  \* catch
      ELSE LET value == IF IsObject(parsed.v) THEN Prop(parsed.v, "value") ELSE Undefined
               expiry == IF IsObject(parsed.v) THEN Prop(parsed.v, "expiry") ELSE Undefined
           IN  IF cacheExpired(t, expiry)
                 THEN Outcome(Null, removeItem(ls, CACHE_PREFIX \o key), FALSE)
                 ELSE Outcome(value, ls, FALSE)

\* faulty variant of cache_set: the try/catch left out
cache_setUncaught(ls, t, key, value, ttlMs, writeThrows) ==
  LET item == [value |-> value, expiry |-> Plus(t, ttlMs)]
  IN  IF writeThrows THEN Outcome(Undefined, ls, TRUE)
      ELSE Outcome(Undefined, setItem(ls, CACHE_PREFIX \o key, JSON_stringify(item)), FALSE)

cache_set(ls, t, key, value, ttlMs, writeThrows) ==
  LET item == [value |-> value, expiry |-> Plus(t, ttlMs)]
  IN  IF writeThrows THEN Outcome(Undefined, ls, FALSE)          \* catch, console.warn
      ELSE Outcome(Undefined, setItem(ls, CACHE_PREFIX \o key, JSON_stringify(item)), FALSE)

cache_remove(ls, key) == Outcome(Undefined, removeItem(ls, CACHE_PREFIX \o key), FALSE)

HasPrefix(k) == startsWith(k, CACHE_PREFIX)

\* keys.forEach(k => localStorage.removeItem(k))
RECURSIVE RemoveEach(_, _)
RemoveEach(ls, keys) ==
  IF keys = <<>> THEN ls ELSE RemoveEach(removeItem(ls, Head(keys)), Tail(keys))

\* faulty variant of cache_clearAll: the keys removed inside the index loop
RECURSIVE RemoveWhileIndexing(_, _)
RemoveWhileIndexing(ls, i) ==
  IF i >= Len(ls) THEN ls
  ELSE IF HasPrefix(ls[i + 1].key)
    THEN RemoveWhileIndexing(removeItem(ls, ls[i + 1].key), i + 1)
    ELSE RemoveWhileIndexing(ls, i + 1)

cache_clearAllInPlace(ls) == Outcome(Undefined, RemoveWhileIndexing(ls, 0), FALSE)

cache_clearAll(ls) ==
  LET keys == SelectSeq([i \in 1..Len(ls) |-> ls[i].key], HasPrefix)
  IN  Outcome(Undefined, RemoveEach(ls, keys), FALSE)

(***************************************************************************)
(* sessionCache: the in-memory store. d is the Map this.data.              *)
(***************************************************************************)
MapOutcome(r, d) == [ret |-> r, data |-> d]

MapDelete(d, key) == [k \in DOMAIN d \ {key} |-> d[k]]

MapSet(d, key, item) == [k \in DOMAIN d \cup {key} |-> IF k = key THEN item ELSE d[k]]

\* item.expiry !== Infinity && Date.now() > item.expiry
sessionExpired(t, expiry) == expiry # Infinity /\ Greater(t, expiry)

sessionCache_get(d, t, key) ==
  IF key \notin DOMAIN d THEN MapOutcome(Null, d)
  ELSE IF sessionExpired(t, d[key].expiry) THEN MapOutcome(Null, MapDelete(d, key))
  ELSE MapOutcome(d[key].value, d)

sessionCache_set(d, t, key, value, ttlMs) ==
  MapOutcome(Undefined, MapSet(d, key, [value |-> value, expiry |-> Plus(t, ttlMs)]))

sessionCache_remove(d, key) == MapOutcome(Undefined, MapDelete(d, key))

sessionCache_clear(d) == MapOutcome(Undefined, <<>>)

(***************************************************************************)
(* permanentResourceCache: the registry, one storage key holding the map   *)
(* ticker -> {address, iconUrl}.                                           *)
(***************************************************************************)
EmptyObject == <<>>

\* obj[name] = v
Assign(obj, name, v) == [p \in DOMAIN obj \cup {name} |-> IF p = name THEN v ELSE obj[p]]

permanentResourceCache_getAll(ls, readThrows) ==
  LET item == getItem(ls, CACHE_PREFIX \o RESOURCE_CACHE_KEY)
      parsed == JSON_parse(item)
  IN  IF readThrows THEN EmptyObject          \* catch
      ELSE IF item = Null THEN EmptyObject    \* !item
      ELSE IF ~parsed.ok THEN EmptyObject     \* catch
      ELSE parsed.v

ResourceEntry(address, iconUrl) == [address |-> address, iconUrl |-> Or(iconUrl, Null)]

permanentResourceCache_add(ls, ticker, address, iconUrl, fault) ==
  LET resources == permanentResourceCache_getAll(ls, fault = "read")
  IN  IF ~IsObject(resources) THEN Outcome(Undefined, ls, FALSE)   \* TypeError, catch
      ELSE IF fault = "write" THEN Outcome(Undefined, ls, FALSE)   \* catch, console.warn
      ELSE Outcome(Undefined,
                   setItem(ls, CACHE_PREFIX \o RESOURCE_CACHE_KEY,
                           JSON_stringify(Assign(resources, ticker, ResourceEntry(address, iconUrl)))),
                   FALSE)

\* for (const r of resources) cache[r.ticker] = {...}
RECURSIVE MergeEach(_, _)
MergeEach(cache, resources) ==
  IF resources = <<>> THEN cache
  ELSE LET r == Head(resources)
       IN  MergeEach(Assign(cache, r.ticker, ResourceEntry(r.address, r.iconUrl)), Tail(resources))

\* faulty variant of addMultiple: the new resources written over the map
permanentResourceCache_addMultipleReplacing(ls, resources, fault) ==
  IF fault = "write" THEN Outcome(Undefined, ls, FALSE)
  ELSE Outcome(Undefined,
               setItem(ls, CACHE_PREFIX \o RESOURCE_CACHE_KEY,
                       JSON_stringify(MergeEach(EmptyObject, resources))),
               FALSE)

permanentResourceCache_addMultiple(ls, resources, fault) ==
  LET cache == permanentResourceCache_getAll(ls, fault = "read")
  IN  IF ~IsObject(cache) /\ resources # <<>> THEN Outcome(Undefined, ls, FALSE)  \* TypeError, catch
      ELSE IF fault = "write" THEN Outcome(Undefined, ls, FALSE)                  \* catch, console.warn
      ELSE Outcome(Undefined,
                   setItem(ls, CACHE_PREFIX \o RESOURCE_CACHE_KEY,
                           JSON_stringify(MergeEach(cache, resources))),
                   FALSE)

permanentResourceCache_get(ls, ticker) ==
  LET all == permanentResourceCache_getAll(ls, FALSE)
  IN  IF ~IsObject(all) THEN Outcome(Undefined, ls, TRUE)          \* TypeError, not caught
      ELSE Outcome(Or(Prop(all, ticker), Null), ls, FALSE)

permanentResourceCache_clear(ls) ==
  Outcome(Undefined, removeItem(ls, CACHE_PREFIX \o RESOURCE_CACHE_KEY), FALSE)

(***************************************************************************)
(* Inputs the calls are made with.                                         *)
(***************************************************************************)
TtlKeys == {"k1"}
SharedKeys == {"k1", RESOURCE_CACHE_KEY}
ForeignKeys == {"theme", "hypercave"}
Values == {Str("v1"), [amount |-> Str("10")]}
Ttls == {Num(0), Num(1), Num(2), Infinity}
Tickers == {"XRD", "HUG"}
Faults == {"none", "read", "write"}
Corrupt == [raw |-> "{not json"]
Foreign == [raw |-> "dark"]

\* resources as the callers pass them: an icon URL, an empty one, none
Icons == {[address |-> Str("addr1"), iconUrl |-> Str("x")],
          [address |-> Str("addr2"), iconUrl |-> Str("")]}
RegistryInputs ==
  {[ticker |-> tk, address |-> i.address, iconUrl |-> i.iconUrl] : tk \in Tickers, i \in Icons}
PlainInputs == {[ticker |-> tk, address |-> Str("addr1"), iconUrl |-> Null] : tk \in Tickers}

SeqsUpTo(S, n) == UNION {[1..m -> S] : m \in 0..n}

Call(op, key, fault, threw) == [op |-> op, key |-> key, fault |-> fault, threw |-> threw]

(***************************************************************************)
(* Initial state: the page has just loaded, nothing is stored.             *)
(***************************************************************************)
Init ==
  /\ now = 1
  /\ localStorage = <<>>
  /\ data = <<>>
  /\ event = Call("load", "", "none", FALSE)
  /\ args = <<>>
  /\ ret = Undefined
  /\ manifest = <<>>
  /\ currentAccount = Null
  /\ modalUI = [visible |-> FALSE, mode |-> "", loading |-> FALSE, balances |-> "none"]
  /\ status = "hidden"
  /\ tasks = EmptyBag

(***************************************************************************)
(* One action per operation.                                               *)
(***************************************************************************)
Tick ==
  /\ now < MaxTime
  /\ now' = now + 1
  /\ event' = Call("tick", "", "none", FALSE)
  /\ args' = <<>>
  /\ ret' = Undefined
  /\ UNCHANGED <<localStorage, data, manifest>>
  /\ UNCHANGED ctl

CacheGet(key, fault) ==
  LET r == cache_get(localStorage, now, key, fault = "read")
  IN  /\ localStorage' = r.ls
      /\ ret' = r.ret
      /\ event' = Call("cache.get", key, fault, r.threw)
      /\ args' = <<>>
      /\ UNCHANGED <<now, data, manifest>>
      /\ UNCHANGED ctl

CacheSet(key, value, ttlMs, fault) ==
  LET r == cache_set(localStorage, now, key, value, ttlMs, fault = "write")
  IN  /\ localStorage' = r.ls
      /\ ret' = r.ret
      /\ event' = Call("cache.set", key, fault, r.threw)
      /\ args' = [value |-> value, ttlMs |-> ttlMs]
      /\ UNCHANGED <<now, data, manifest>>
      /\ UNCHANGED ctl

CacheRemove(key) ==
  LET r == cache_remove(localStorage, key)
  IN  /\ localStorage' = r.ls
      /\ ret' = r.ret
      /\ event' = Call("cache.remove", key, "none", r.threw)
      /\ args' = <<>>
      /\ UNCHANGED <<now, data, manifest>>
      /\ UNCHANGED ctl

CacheClearAll ==
  LET r == cache_clearAll(localStorage)
  IN  /\ localStorage' = r.ls
      /\ ret' = r.ret
      /\ event' = Call("cache.clearAll", "", "none", r.threw)
      /\ args' = <<>>
      /\ UNCHANGED <<now, data, manifest>>
      /\ UNCHANGED ctl

SessionGet(key) ==
  LET r == sessionCache_get(data, now, key)
  IN  /\ data' = r.data
      /\ ret' = r.ret
      /\ event' = Call("sessionCache.get", key, "none", FALSE)
      /\ args' = <<>>
      /\ UNCHANGED <<now, localStorage, manifest>>
      /\ UNCHANGED ctl

SessionSet(key, value, ttlMs) ==
  LET r == sessionCache_set(data, now, key, value, ttlMs)
  IN  /\ data' = r.data
      /\ ret' = r.ret
      /\ event' = Call("sessionCache.set", key, "none", FALSE)
      /\ args' = [value |-> value, ttlMs |-> ttlMs]
      /\ UNCHANGED <<now, localStorage, manifest>>
      /\ UNCHANGED ctl

SessionRemove(key) ==
  LET r == sessionCache_remove(data, key)
  IN  /\ data' = r.data
      /\ ret' = r.ret
      /\ event' = Call("sessionCache.remove", key, "none", FALSE)
      /\ args' = <<>>
      /\ UNCHANGED <<now, localStorage, manifest>>
      /\ UNCHANGED ctl

SessionClear ==
  LET r == sessionCache_clear(data)
  IN  /\ data' = r.data
      /\ ret' = r.ret
      /\ event' = Call("sessionCache.clear", "", "none", FALSE)
      /\ args' = <<>>
      /\ UNCHANGED <<now, localStorage, manifest>>
      /\ UNCHANGED ctl

RegistryGetAll(fault) ==
  /\ ret' = permanentResourceCache_getAll(localStorage, fault = "read")
  /\ event' = Call("permanentResourceCache.getAll", "", fault, FALSE)
  /\ args' = <<>>
  /\ UNCHANGED <<now, localStorage, data, manifest>>
  /\ UNCHANGED ctl

RegistryAdd(ticker, address, iconUrl, fault) ==
  LET r == permanentResourceCache_add(localStorage, ticker, address, iconUrl, fault)
  IN  /\ localStorage' = r.ls
      /\ ret' = r.ret
      /\ event' = Call("permanentResourceCache.add", ticker, fault, r.threw)
      /\ args' = <<[ticker |-> ticker, address |-> address, iconUrl |-> iconUrl]>>
      /\ UNCHANGED <<now, data, manifest>>
      /\ UNCHANGED ctl

RegistryAddMultiple(resources, fault) ==
  LET r == permanentResourceCache_addMultiple(localStorage, resources, fault)
  IN  /\ localStorage' = r.ls
      /\ ret' = r.ret
      /\ event' = Call("permanentResourceCache.addMultiple", "", fault, r.threw)
      /\ args' = resources
      /\ UNCHANGED <<now, data, manifest>>
      /\ UNCHANGED ctl

RegistryGet(ticker) ==
  LET r == permanentResourceCache_get(localStorage, ticker)
  IN  /\ localStorage' = r.ls
      /\ ret' = r.ret
      /\ event' = Call("permanentResourceCache.get", ticker, "none", r.threw)
      /\ args' = <<>>
      /\ UNCHANGED <<now, data, manifest>>
      /\ UNCHANGED ctl

RegistryClear ==
  LET r == permanentResourceCache_clear(localStorage)
  IN  /\ localStorage' = r.ls
      /\ ret' = r.ret
      /\ event' = Call("permanentResourceCache.clear", "", "none", r.threw)
      /\ args' = <<>>
      /\ UNCHANGED <<now, data, manifest>>
      /\ UNCHANGED ctl

\* another script of the page's origin writes a storage item
StorageWrittenElsewhere(key, text) ==
  /\ localStorage' = setItem(localStorage, key, text)
  /\ event' = Call("elsewhere", key, "none", FALSE)
  /\ args' = <<>>
  /\ ret' = Undefined
  /\ UNCHANGED <<now, data, manifest>>
  /\ UNCHANGED ctl

(***************************************************************************)
(* TtlSpec: the two TTL stores under a moving clock.                       *)
(***************************************************************************)
TtlNext ==
  \/ Tick
  \/ \E key \in TtlKeys, fault \in {"none", "read"} : CacheGet(key, fault)
  \/ \E key \in TtlKeys, value \in Values, ttlMs \in Ttls, fault \in {"none", "write"} :
       CacheSet(key, value, ttlMs, fault)
  \/ \E key \in TtlKeys : CacheRemove(key)
  \/ CacheClearAll
  \/ \E key \in TtlKeys : SessionGet(key)
  \/ \E key \in TtlKeys, value \in Values, ttlMs \in Ttls : SessionSet(key, value, ttlMs)
  \/ \E key \in TtlKeys : SessionRemove(key)
  \/ SessionClear

TtlSpec == Init /\ [][TtlNext]_vars

(***************************************************************************)
(* Spec: the persistent store and the registry on the storage they share,  *)
(* with failing reads and writes and items no JSON parser accepts.         *)
(***************************************************************************)
Next ==
  \/ \E key \in SharedKeys, fault \in {"none", "read"} : CacheGet(key, fault)
  \/ \E key \in SharedKeys, ttlMs \in {Num(1), Infinity}, fault \in {"none", "write"} :
       CacheSet(key, Str("v1"), ttlMs, fault)
  \/ \E key \in SharedKeys : CacheRemove(key)
  \/ CacheClearAll
  \/ \E fault \in {"none", "read"} : RegistryGetAll(fault)
  \/ \E r \in PlainInputs, fault \in Faults : RegistryAdd(r.ticker, r.address, r.iconUrl, fault)
  \/ \E resources \in SeqsUpTo(PlainInputs, MaxBatch), fault \in Faults :
       RegistryAddMultiple(resources, fault)
  \/ \E ticker \in Tickers : RegistryGet(ticker)
  \/ RegistryClear
  \/ \E key \in SharedKeys : StorageWrittenElsewhere(CACHE_PREFIX \o key, Corrupt)

Spec == Init /\ [][Next]_vars

(***************************************************************************)
(* ClearSpec: a storage the application shares with other scripts of the   *)
(* origin, filled in every order and then cleared.                         *)
(***************************************************************************)
ClearNext ==
  \/ \E key \in SharedKeys : CacheSet(key, Str("v1"), Infinity, "none")
  \/ \E key \in SharedKeys : CacheRemove(key)
  \/ CacheClearAll
  \/ \E r \in PlainInputs : RegistryAdd(r.ticker, r.address, r.iconUrl, "none")
  \/ \E key \in ForeignKeys : StorageWrittenElsewhere(key, Foreign)

ClearSpec == Init /\ [][ClearNext]_vars

(***************************************************************************)
(* RegistrySpec: the registry alone, with every kind of input.             *)
(***************************************************************************)
RegistryNext ==
  \/ \E fault \in {"none", "read"} : RegistryGetAll(fault)
  \/ \E r \in RegistryInputs, fault \in Faults : RegistryAdd(r.ticker, r.address, r.iconUrl, fault)
  \/ \E resources \in SeqsUpTo(RegistryInputs, MaxBatch), fault \in Faults :
       RegistryAddMultiple(resources, fault)
  \/ \E ticker \in Tickers : RegistryGet(ticker)
  \/ RegistryClear

RegistrySpec == Init /\ [][RegistryNext]_vars

(***************************************************************************)
(* Claims about the TTL stores (TtlSpec).                                  *)
(***************************************************************************)
\* the item stored under a cache key, Null when there is none
Stored(ls, key) == getItem(ls, CACHE_PREFIX \o key)

\* what cache.set(key, value, ttlMs) at time t leaves under the key
WrittenBy(t, key, value, ttlMs) == Stored(cache_set(<<>>, t, key, value, ttlMs, FALSE).ls, key)

Times == 0..(MaxTime + 2)

IsCacheGet(e, key) == e.op = "cache.get" /\ e.key = key /\ e.fault = "none"
IsSessionGet(e, key) == e.op = "sessionCache.get" /\ e.key = key

C2_InfiniteNeverExpires ==
  [][\A key \in TtlKeys, value \in Values :
       /\ (IsSessionGet(event', key) /\ key \in DOMAIN data
             /\ data[key] = sessionCache_set(<<>>, now, key, value, Infinity).data[key])
            => (ret' = value /\ data' = data)
       /\ (IsCacheGet(event', key) /\ Stored(localStorage, key) = WrittenBy(now, key, value, Infinity))
            => (ret' = value /\ localStorage' = localStorage)]_vars

\* C3: in both tiers set(key, value, ttlMs) followed immediately by get(key),
\* the write not failing, returns the value that was set.
C3_SetThenGet ==
  [][\A key \in TtlKeys :
       /\ (event.op = "sessionCache.set" /\ event.key = key /\ IsSessionGet(event', key))
            => ret' = args.value
       /\ (event.op = "cache.set" /\ event.key = key /\ event.fault = "none" /\ IsCacheGet(event', key))
            => ret' = args.value]_vars

(***************************************************************************)
(* Claims about the shared storage (ClearSpec, Spec).                      *)
(***************************************************************************)
Namespaced(k) == Len(k) >= Len("hypercave_") /\ SubSeq(k, 1, Len("hypercave_")) = "hypercave_"

\* C4: cache.clearAll removes every storage key that starts with 'hypercave_'
\* and no other: afterwards no namespaced key is left and every other key is
\* still there with its value.
C4_ClearAllOnlyNamespaced ==
  [][event'.op = "cache.clearAll" =>
       /\ \A k \in StorageKeys(localStorage') : ~Namespaced(k)
       /\ \A k \in StorageKeys(localStorage) :
            ~Namespaced(k) => /\ k \in StorageKeys(localStorage')
                              /\ getItem(localStorage', k) = getItem(localStorage, k)]_vars

\* clearAll has run on a storage that other scripts wrote to, and their keys are left
C4_Witness ==
  /\ event.op = "cache.clearAll"
  /\ StorageKeys(localStorage) = ForeignKeys

CacheOps == {"cache.get", "cache.set", "cache.remove", "cache.clearAll"}

\* C5: no operation of the persistent store, with any key, changes what
\* permanentResourceCache.getAll returns.
C5_RegistryIndependent ==
  [][event'.op \in CacheOps =>
       permanentResourceCache_getAll(localStorage', FALSE)
         = permanentResourceCache_getAll(localStorage, FALSE)]_vars

Unparsable(text) == text # Null /\ ~JSON_parse(text).ok

\* C10: a failing storage write leaves cache.set, add and addMultiple returning
\* normally with the stored contents unchanged; an item that cannot be read or
\* parsed makes cache.get return null and getAll return an empty map.
C10_FailuresContained ==
  [][/\ (event'.fault = "write"
           /\ event'.op \in {"cache.set", "permanentResourceCache.add",
                             "permanentResourceCache.addMultiple"})
          => (~event'.threw /\ localStorage' = localStorage)
     /\ \A key \in SharedKeys :
          (event'.op = "cache.get" /\ event'.key = key
             /\ (event'.fault = "read" \/ Unparsable(Stored(localStorage, key))))
            => (~event'.threw /\ ret' = Null)
     /\ (event'.op = "permanentResourceCache.getAll"
           /\ (event'.fault = "read" \/ Unparsable(Stored(localStorage, RESOURCE_CACHE_KEY))))
          => (~event'.threw /\ ret' = <<>>)]_vars

\* a cache.set whose write failed has returned and the older entry is still stored
C10_Witness ==
  /\ event.op = "cache.set"
  /\ event.fault = "write"
  /\ ~event.threw
  /\ Stored(localStorage, event.key) # Null

(***************************************************************************)
(* Claims about the registry (RegistrySpec).                               *)
(***************************************************************************)
RegistryWrites == {"permanentResourceCache.add", "permanentResourceCache.addMultiple"}

Lookup(ls, ticker) == permanentResourceCache_get(ls, ticker).ret

Writes(resources, ticker) == \E i \in 1..Len(resources) : resources[i].ticker = ticker

LastWrite(resources, ticker) ==
  resources[CHOOSE i \in 1..Len(resources) :
              /\ resources[i].ticker = ticker
              /\ \A j \in (i + 1)..Len(resources) : resources[j].ticker # ticker]

\* C6 as stated: after a write that did not fail, get(ticker) returns the
\* address and the iconUrl of the last write for that ticker, and every ticker
\* the call did not write is as it was.
C6_LastWriteAsGiven ==
  [][(event'.op \in RegistryWrites /\ event'.fault = "none") =>
       \A tk \in Tickers :
         Lookup(localStorage', tk) =
           IF Writes(args', tk)
             THEN [address |-> LastWrite(args', tk).address,
                   iconUrl |-> LastWrite(args', tk).iconUrl]
             ELSE Lookup(localStorage, tk)]_vars

\* C6 amended: the same, an empty or missing iconUrl being stored, and
\* returned, as null.
C6_LastWriteMerged ==
  [][(event'.op \in RegistryWrites /\ event'.fault = "none") =>
       \A tk \in Tickers :
         Lookup(localStorage', tk) =
           IF Writes(args', tk)
             THEN [address |-> LastWrite(args', tk).address,
                   iconUrl |-> IF LastWrite(args', tk).iconUrl \in {Str(""), Undefined}
                                 THEN Null ELSE LastWrite(args', tk).iconUrl]
             ELSE Lookup(localStorage, tk)]_vars

\* an addMultiple has written one ticker twice, the second write is the one
\* read back, and the ticker written before the call is still there
C6_Witness ==
  /\ event.op = "permanentResourceCache.addMultiple"
  /\ event.fault = "none"
  /\ Len(args) = 2
  /\ args[1].ticker = args[2].ticker
  /\ args[1].address # args[2].address
  /\ Lookup(localStorage, args[2].ticker).address = args[2].address
  /\ \E tk \in Tickers \ {args[2].ticker} : Lookup(localStorage, tk) # Null

(***************************************************************************)
(* The manifest builders. A text is the sequence of its lines and a line   *)
(* the sequence of its pieces: the stretches of template text and the      *)
(* interpolated values, in order.                                          *)
(***************************************************************************)
CONFIG_componentAddress == "component_cave"

\* a + b on texts: the last line of a runs into the first line of b
Concat(a, b) == SubSeq(a, 1, Len(a) - 1) \o <<a[Len(a)] \o b[1]>> \o Tail(b)

RECURSIVE TrimStart(_)
TrimStart(text) ==
  IF text # <<>> /\ Head(text) = <<>> THEN TrimStart(Tail(text)) ELSE text

RECURSIVE TrimEnd(_)
TrimEnd(text) ==
  IF text # <<>> /\ text[Len(text)] = <<>>
    THEN TrimEnd(SubSeq(text, 1, Len(text) - 1))
    ELSE text

\* String.prototype.trim: the texts here start and end with empty lines only
trim(text) == TrimEnd(TrimStart(text))

\* parts.join(sep)
RECURSIVE join(_, _)
join(parts, sep) ==
  IF parts = <<>> THEN <<>>
  ELSE IF Len(parts) = 1 THEN parts[1]
  ELSE parts[1] \o <<sep>> \o join(Tail(parts), sep)

InCaveProof(accountAddress, nftCollection, nftId) ==
  << <<>>,
     <<"CALL_METHOD">>,
     <<"  Address(\"", accountAddress, "\")">>,
     <<"  \"create_proof_of_non_fungibles\"">>,
     <<"  Address(\"", nftCollection, "\")">>,
     <<"  Array<NonFungibleLocalId>(NonFungibleLocalId(\"", nftId, "\"))">>,
     <<";">>,
     <<>>,
     <<"POP_FROM_AUTH_ZONE">>,
     <<"  Proof(\"", "nft_proof", "\")">>,
     <<";">>,
     <<>> >>

\* faulty variant of WithdrawTake: every resource taken into bucket_0
WithdrawTakeOneBucket(accountAddress, resource, index) ==
  << <<>>,
     <<"CALL_METHOD">>,
     <<"  Address(\"", accountAddress, "\")">>,
     <<"  \"withdraw\"">>,
     <<"  Address(\"", resource.resourceAddress, "\")">>,
     <<"  Decimal(\"", resource.amount, "\")">>,
     <<";">>,
     <<>>,
     <<"TAKE_FROM_WORKTOP">>,
     <<"  Address(\"", resource.resourceAddress, "\")">>,
     <<"  Decimal(\"", resource.amount, "\")">>,
     <<"  Bucket(\"", "bucket_" \o ToString(0), "\")">>,
     <<";">>,
     <<>> >>

WithdrawTake(accountAddress, resource, index) ==
  << <<>>,
     <<"CALL_METHOD">>,
     <<"  Address(\"", accountAddress, "\")">>,
     <<"  \"withdraw\"">>,
     <<"  Address(\"", resource.resourceAddress, "\")">>,
     <<"  Decimal(\"", resource.amount, "\")">>,
     <<";">>,
     <<>>,
     <<"TAKE_FROM_WORKTOP">>,
     <<"  Address(\"", resource.resourceAddress, "\")">>,
     <<"  Decimal(\"", resource.amount, "\")">>,
     <<"  Bucket(\"", "bucket_" \o ToString(index), "\")">>,
     <<";">>,
     <<>> >>

\* resources.forEach((resource, index) => { manifest += ... })
RECURSIVE WithdrawEach(_, _, _, _)
WithdrawEach(text, accountAddress, resources, index) ==
  IF index >= Len(resources) THEN text
  ELSE WithdrawEach(Concat(text, WithdrawTake(accountAddress, resources[index + 1], index)),
                    accountAddress, resources, index + 1)

bucketArray(resources) ==
  join([i \in 1..Len(resources) |-> <<"Bucket(\"", "bucket_" \o ToString(i - 1), "\")">>], ", ")

InCaveCall(resources) ==
  << <<>>,
     <<"CALL_METHOD">>,
     <<"  Address(\"", CONFIG_componentAddress, "\")">>,
     <<"  \"in_cave\"">>,
     <<"  Proof(\"", "nft_proof", "\")">>,
     <<"  Array<Bucket>(">> \o bucketArray(resources) \o <<")">>,
     <<";">>,
     <<>> >>

buildInCaveManifest(accountAddress, nftCollection, nftId, resources) ==
  trim(Concat(WithdrawEach(InCaveProof(accountAddress, nftCollection, nftId),
                           accountAddress, resources, 0),
              InCaveCall(resources)))

\* faulty variant of withdrawalTuples: the tuples listed last to first
withdrawalTuplesReversed(withdrawals) ==
  join([i \in 1..Len(withdrawals) |->
          <<"Tuple(Address(\"", withdrawals[Len(withdrawals) + 1 - i].resourceAddress,
            "\"), Decimal(\"", withdrawals[Len(withdrawals) + 1 - i].amount, "\"))">>], ", ")

withdrawalTuples(withdrawals) ==
  join([i \in 1..Len(withdrawals) |->
          <<"Tuple(Address(\"", withdrawals[i].resourceAddress,
            "\"), Decimal(\"", withdrawals[i].amount, "\"))">>], ", ")

buildOutCaveManifest(accountAddress, nftCollection, nftId, withdrawals) ==
  trim(<< <<>>,
          <<"CALL_METHOD">>,
          <<"  Address(\"", accountAddress, "\")">>,
          <<"  \"create_proof_of_non_fungibles\"">>,
          <<"  Address(\"", nftCollection, "\")">>,
          <<"  Array<NonFungibleLocalId>(NonFungibleLocalId(\"", nftId, "\"))">>,
          <<";">>,
          <<>>,
          <<"POP_FROM_AUTH_ZONE">>,
          <<"  Proof(\"", "nft_proof", "\")">>,
          <<";">>,
          <<>>,
          <<"CALL_METHOD">>,
          <<"  Address(\"", CONFIG_componentAddress, "\")">>,
          <<"  \"out_cave\"">>,
          <<"  Proof(\"", "nft_proof", "\")">>,
          <<"  Array<Tuple>(">> \o withdrawalTuples(withdrawals) \o <<")">>,
          <<";">>,
          <<>>,
          <<"CALL_METHOD">>,
          <<"  Address(\"", accountAddress, "\")">>,
          <<"  \"deposit_batch\"">>,
          <<"  Expression(\"ENTIRE_WORKTOP\")">>,
          <<";">>,
          <<>> >>)

addressArray(resourceAddresses) ==
  join([i \in 1..Len(resourceAddresses) |-> <<"Address(\"", resourceAddresses[i], "\")">>], ", ")

\* faulty variant of buildLookCaveManifest: the query followed by the
\* deposit_batch of the withdrawal manifest
buildLookCaveManifestDepositing(accountAddress, nftCollection, nftId, resourceAddresses) ==
  trim(<< <<>>,
          <<"CALL_METHOD">>,
          <<"  Address(\"", accountAddress, "\")">>,
          <<"  \"create_proof_of_non_fungibles\"">>,
          <<"  Address(\"", nftCollection, "\")">>,
          <<"  Array<NonFungibleLocalId>(NonFungibleLocalId(\"", nftId, "\"))">>,
          <<";">>,
          <<>>,
          <<"POP_FROM_AUTH_ZONE">>,
          <<"  Proof(\"", "nft_proof", "\")">>,
          <<";">>,
          <<>>,
          <<"CALL_METHOD">>,
          <<"  Address(\"", CONFIG_componentAddress, "\")">>,
          <<"  \"query_balances\"">>,
          <<"  Proof(\"", "nft_proof", "\")">>,
          <<"  Array<Address>(">> \o addressArray(resourceAddresses) \o <<")">>,
          <<";">>,
          <<>>,
          <<"CALL_METHOD">>,
          <<"  Address(\"", accountAddress, "\")">>,
          <<"  \"deposit_batch\"">>,
          <<"  Expression(\"ENTIRE_WORKTOP\")">>,
          <<";">>,
          <<>> >>)

buildLookCaveManifest(accountAddress, nftCollection, nftId, resourceAddresses) ==
  trim(<< <<>>,
          <<"CALL_METHOD">>,
          <<"  Address(\"", accountAddress, "\")">>,
          <<"  \"create_proof_of_non_fungibles\"">>,
          <<"  Address(\"", nftCollection, "\")">>,
          <<"  Array<NonFungibleLocalId>(NonFungibleLocalId(\"", nftId, "\"))">>,
          <<";">>,
          <<>>,
          <<"POP_FROM_AUTH_ZONE">>,
          <<"  Proof(\"", "nft_proof", "\")">>,
          <<";">>,
          <<>>,
          <<"CALL_METHOD">>,
          <<"  Address(\"", CONFIG_componentAddress, "\")">>,
          <<"  \"query_balances\"">>,
          <<"  Proof(\"", "nft_proof", "\")">>,
          <<"  Array<Address>(">> \o addressArray(resourceAddresses) \o <<")">>,
          <<";">>,
          <<>> >>)

(***************************************************************************)
(* ManifestSpec: the builders called with every input of the bounded sets. *)
(***************************************************************************)
AccountAddresses == {"account_1", "account_2"}
NftCollections == {"collection_1"}
NftIds == {"#1#", "<uuid>"}
ResourceAddresses == {"resource_A", "resource_B"}
Amounts == {"10", "5"}
ResourceRefs == [resourceAddress : ResourceAddresses, amount : Amounts]

Built(op, accountAddress, nftCollection, nftId, list, text) ==
  /\ manifest' = text
  /\ ret' = Undefined
  /\ event' = Call(op, "", "none", FALSE)
  /\ args' = [accountAddress |-> accountAddress, nftCollection |-> nftCollection,
              nftId |-> nftId, list |-> list]
  /\ UNCHANGED <<now, localStorage, data>>
  /\ UNCHANGED ctl

BuildInCave(accountAddress, nftCollection, nftId, resources) ==
  Built("buildInCaveManifest", accountAddress, nftCollection, nftId, resources,
        buildInCaveManifest(accountAddress, nftCollection, nftId, resources))

BuildOutCave(accountAddress, nftCollection, nftId, withdrawals) ==
  Built("buildOutCaveManifest", accountAddress, nftCollection, nftId, withdrawals,
        buildOutCaveManifest(accountAddress, nftCollection, nftId, withdrawals))

BuildLookCave(accountAddress, nftCollection, nftId, resourceAddresses) ==
  Built("buildLookCaveManifest", accountAddress, nftCollection, nftId, resourceAddresses,
        buildLookCaveManifest(accountAddress, nftCollection, nftId, resourceAddresses))

ManifestNext ==
  \/ \E a \in AccountAddresses, c \in NftCollections, id \in NftIds,
        resources \in SeqsUpTo(ResourceRefs, MaxRes) : BuildInCave(a, c, id, resources)
  \/ \E a \in AccountAddresses, c \in NftCollections, id \in NftIds,
        withdrawals \in SeqsUpTo(ResourceRefs, MaxRes) : BuildOutCave(a, c, id, withdrawals)
  \/ \E a \in AccountAddresses, c \in NftCollections, id \in NftIds,
        addresses \in SeqsUpTo(ResourceAddresses, MaxRes) : BuildLookCave(a, c, id, addresses)

ManifestSpec == Init /\ [][ManifestNext]_vars

(***************************************************************************)
(* Claims about the manifests (ManifestSpec). A manifest is read back as   *)
(* its statements: the non-empty lines up to each ";" line.                *)
(***************************************************************************)
RECURSIVE StatementsFrom(_, _, _)
StatementsFrom(lines, current, done) ==
  IF lines = <<>> THEN (IF current = <<>> THEN done ELSE Append(done, current))
  ELSE IF Head(lines) = <<";">> THEN StatementsFrom(Tail(lines), <<>>, Append(done, current))
  ELSE IF Head(lines) = <<>> THEN StatementsFrom(Tail(lines), current, done)
  ELSE StatementsFrom(Tail(lines), Append(current, Head(lines)), done)

Statements(text) == StatementsFrom(text, <<>>, <<>>)

AddressArg(a) == <<"  Address(\"", a, "\")">>
DecimalArg(d) == <<"  Decimal(\"", d, "\")">>
BucketArg(b) == <<"  Bucket(\"", b, "\")">>
ProofArg == <<"  Proof(\"", "nft_proof", "\")">>
MethodName(m) == <<"  \"" \o m \o "\"">>
CallMethod(a, m, rest) == << <<"CALL_METHOD">>, AddressArg(a), MethodName(m) >> \o rest

ProofCreation ==
  CallMethod(args.accountAddress, "create_proof_of_non_fungibles",
             << AddressArg(args.nftCollection),
                <<"  Array<NonFungibleLocalId>(NonFungibleLocalId(\"", args.nftId, "\"))">> >>)
ProofPop == << <<"POP_FROM_AUTH_ZONE">>, ProofArg >>

\* the elements of an array line "  Array<T>(e1, e2, ...)", each of width pieces
ArrayCount(line, width) == (Len(line) - 1) \div (width + 1)
ArrayItem(line, width, k) ==
  SubSeq(line, 2 + (k - 1) * (width + 1), 1 + (k - 1) * (width + 1) + width)
ArrayLine(line, opening, width, n) ==
  /\ Len(line) = IF n = 0 THEN 2 ELSE n * (width + 1) + 1
  /\ line[1] = opening
  /\ line[Len(line)] = ")"
  /\ \A k \in 1..(n - 1) : line[1 + k * (width + 1)] = ", "

Calls(stmts, m) == {i \in 1..Len(stmts) : Len(stmts[i]) >= 3 /\ stmts[i][3] = MethodName(m)}

BucketName(i) == "bucket_" \o ToString(i)

\* C7: for a non-empty resource list of length n the deposit manifest is the
\* proof creation, the pop into nft_proof, for i = 0..n-1 a withdraw followed
\* by a take into bucket_i of the i-th address and amount, and one in_cave call
\* listing bucket_0 .. bucket_(n-1) in order; the bucket names are distinct and
\* each one listed was produced by exactly one take.
C7_InCaveManifest ==
  LET s == Statements(manifest)
      rs == args.list
      n == Len(rs)
      last == s[2 * n + 3]
  IN  (event.op = "buildInCaveManifest" /\ n > 0) =>
        /\ Len(s) = 2 * n + 3
        /\ s[1] = ProofCreation
        /\ s[2] = ProofPop
        /\ \A i \in 0..(n - 1) :
             /\ s[3 + 2 * i] = CallMethod(args.accountAddress, "withdraw",
                                          << AddressArg(rs[i + 1].resourceAddress),
                                             DecimalArg(rs[i + 1].amount) >>)
             /\ s[4 + 2 * i] = << <<"TAKE_FROM_WORKTOP">>,
                                  AddressArg(rs[i + 1].resourceAddress),
                                  DecimalArg(rs[i + 1].amount),
                                  BucketArg(BucketName(i)) >>
        /\ Calls(s, "in_cave") = {2 * n + 3}
        /\ Len(last) = 5
        /\ SubSeq(last, 1, 4) = CallMethod(CONFIG_componentAddress, "in_cave", <<ProofArg>>)
        /\ ArrayLine(last[5], "  Array<Bucket>(", 3, n)
        /\ \A k \in 1..n :
             /\ ArrayItem(last[5], 3, k) = <<"Bucket(\"", BucketName(k - 1), "\")">>
             /\ Cardinality({i \in 1..Len(s) : /\ s[i][1] = <<"TAKE_FROM_WORKTOP">>
                                               /\ s[i][4] = BucketArg(ArrayItem(last[5], 3, k)[2])}) = 1
        /\ \A j, k \in 1..n :
             j # k => ArrayItem(last[5], 3, j)[2] # ArrayItem(last[5], 3, k)[2]

\* a deposit manifest for two resources has been built, the second taken into bucket_1
C7_Witness ==
  /\ event.op = "buildInCaveManifest"
  /\ Len(args.list) = 2
  /\ args.list[1] # args.list[2]
  /\ Len(Statements(manifest)) = 7
  /\ Statements(manifest)[6][4] = BucketArg("bucket_1")

\* C8: for a withdrawal list of length n the withdrawal manifest is the proof
\* preamble, one out_cave call whose array holds the n tuples in input order,
\* each the i-th address with its amount, and one deposit_batch of the entire
\* worktop to the account that created the proof.
C8_OutCaveManifest ==
  LET s == Statements(manifest)
      ws == args.list
      n == Len(ws)
  IN  event.op = "buildOutCaveManifest" =>
        /\ Len(s) = 4
        /\ s[1] = ProofCreation
        /\ s[2] = ProofPop
        /\ Calls(s, "out_cave") = {3}
        /\ Len(s[3]) = 5
        /\ SubSeq(s[3], 1, 4) = CallMethod(CONFIG_componentAddress, "out_cave", <<ProofArg>>)
        /\ ArrayLine(s[3][5], "  Array<Tuple>(", 5, n)
        /\ ArrayCount(s[3][5], 5) = n
        /\ \A k \in 1..n :
             ArrayItem(s[3][5], 5, k) =
               <<"Tuple(Address(\"", ws[k].resourceAddress, "\"), Decimal(\"", ws[k].amount, "\"))">>
        /\ Calls(s, "deposit_batch") = {4}
        /\ s[4] = CallMethod(args.accountAddress, "deposit_batch",
                             << <<"  Expression(\"ENTIRE_WORKTOP\")">> >>)

\* a withdrawal manifest for two different withdrawals has been built
C8_Witness ==
  /\ event.op = "buildOutCaveManifest"
  /\ Len(args.list) = 2
  /\ args.list[1].resourceAddress # args.list[2].resourceAddress
  /\ args.list[1].amount # args.list[2].amount
  /\ ArrayCount(Statements(manifest)[3][5], 5) = 2

\* C9: the query manifest is exactly three statements, the proof creation, the
\* pop into nft_proof and one query_balances call with the proof and the
\* addresses in input order, and none of them is a withdraw, a deposit, a
\* deposit_batch or a TAKE_FROM_WORKTOP.
C9_LookCaveManifest ==
  LET s == Statements(manifest)
      as == args.list
      n == Len(as)
  IN  event.op = "buildLookCaveManifest" =>
        /\ Len(s) = 3
        /\ s[1] = ProofCreation
        /\ s[2] = ProofPop
        /\ Len(s[3]) = 5
        /\ SubSeq(s[3], 1, 4) = CallMethod(CONFIG_componentAddress, "query_balances", <<ProofArg>>)
        /\ ArrayLine(s[3][5], "  Array<Address>(", 3, n)
        /\ \A k \in 1..n : ArrayItem(s[3][5], 3, k) = <<"Address(\"", as[k], "\")">>
        /\ \A i \in 1..Len(s) : s[i][1] # <<"TAKE_FROM_WORKTOP">>
        /\ Calls(s, "withdraw") \cup Calls(s, "deposit") \cup Calls(s, "deposit_batch") = {}

\* a query manifest for two addresses has been built
C9_Witness ==
  /\ event.op = "buildLookCaveManifest"
  /\ Len(args.list) = 2
  /\ args.list[1] # args.list[2]
  /\ Calls(Statements(manifest), "query_balances") = {3}

(***************************************************************************)
(* The controller (src/src/main.js). Its collaborators are not part of the *)
(* sources: the modal and the status line (ui.js) and the gateway client   *)
(* (gateway.js) are modelled from the interface the specification gives    *)
(* them.                                                                   *)
(***************************************************************************)
MaxFetches == 1
MaxRuns == 2

\* ui.js, ModalUI: the modal is shown in a mode and hidden; the loading flag
\* disables the controls that trigger onSubmit and onLookup until it is
\* released; the balances pane shows a spinner, an error or the balances
modalUI_show(m, mode) == [m EXCEPT !.visible = TRUE, !.mode = mode]
modalUI_hide(m) == [m EXCEPT !.visible = FALSE]
modalUI_setLoading(m, flag) == [m EXCEPT !.loading = flag]
modalUI_showBalancesLoading(m) == [m EXCEPT !.balances = "loading"]
modalUI_showBalancesError(m) == [m EXCEPT !.balances = "error"]
modalUI_renderBalances(m) == [m EXCEPT !.balances = "rendered"]
modalUI_enabled(m) == m.visible /\ ~m.loading

\* ui.js: setStatus(message, type) and hideStatus()
setStatus(type) == type
hideStatus == "hidden"

\* gateway.js: a response is kept in the session cache under a key made of
\* the kind of request and what was asked for
fungiblesKey(address) == "fungibles:" \o address
nftsKey(address) == "nfts:" \o address
gateway_keep(d, t, key) == sessionCache_set(d, t, key, Str("response"), Num(1)).data
gateway_getAccountFungibles(d, t, address) == gateway_keep(d, t, fungiblesKey(address))
gateway_getAccountNonFungibles(d, t, address) == gateway_keep(d, t, nftsKey(address))

\* an async function suspended at an await: the function, the request it
\* waits for, the account address the request was made with, the arguments
\* of the function, the manifest sent with the request
Task(fn, pc, address, d, text) ==
  [fn |-> fn, pc |-> pc, address |-> address, data |-> d, manifest |-> text]
Suspended(ts, t) == ts (+) SetToBag({t})
Resumed(ts, t) == ts (-) SetToBag({t})
Waiting(ts, S) == BagCardinality([t \in S |-> ts[t]])
Handled(op, outcome) == Call(op, outcome, "none", FALSE)

\* the suspended runs of openModal, and those of the two handlers
Fetches(ts) == Waiting(ts, {t \in BagToSet(ts) : t.fn = "openModal"})
Runs(ts) == Waiting(ts, {t \in BagToSet(ts) : t.fn # "openModal"})

\* wallet-signing and preview requests that have not completed
Outstanding(ts) ==
  Waiting(ts, {t \in BagToSet(ts) : t.pc \in {"sendTransaction", "previewTransaction"}})

\* faulty variant of onAccountConnected: the session cache kept on connect
onAccountConnectedKeeping(d) == d

\* sessionCache.clear() of onAccountConnected
onAccountConnected(d) == sessionCache_clear(d).data

\* onAccountDisconnected: the session cache, the modal and the status line after it
onAccountDisconnected(d, m) ==
  [data |-> sessionCache_clear(d).data, modalUI |-> modalUI_hide(m), status |-> hideStatus]

\* the walletData$ subscription
WalletData(accounts) ==
  /\ IF Len(accounts) > 0
     THEN /\ currentAccount' = accounts[1]
          /\ data' = onAccountConnected(data)
          /\ UNCHANGED <<modalUI, status>>
     ELSE LET r == onAccountDisconnected(data, modalUI)
          IN  /\ currentAccount' = Null
              /\ data' = r.data
              /\ modalUI' = r.modalUI
              /\ status' = r.status
  /\ event' = Handled("walletData$", IF Len(accounts) > 0 THEN "connect" ELSE "disconnect")
  /\ args' = accounts
  /\ ret' = Undefined
  /\ UNCHANGED <<now, localStorage, manifest, tasks>>

\* openModal(mode) up to its await
OpenModal(mode) ==
  /\ IF currentAccount = Null
     THEN /\ status' = setStatus("error")
          /\ UNCHANGED tasks
     ELSE /\ Fetches(tasks) < MaxFetches
          /\ status' = setStatus("info")
          /\ tasks' = Suspended(tasks, Task("openModal", "fetch", currentAccount.address, [mode |-> mode], <<>>))
  /\ event' = Handled("openModal", "")
  /\ args' = <<>>
  /\ ret' = Undefined
  /\ UNCHANGED <<now, localStorage, data, manifest, currentAccount, modalUI>>

\* openModal after its await: what it leaves of the modal and the status line
openModal_resume(m, st, mode, outcome) ==
  IF outcome = "fail" THEN [modalUI |-> m, status |-> setStatus("error")]
  ELSE IF outcome = "noNft" THEN [modalUI |-> m, status |-> setStatus("error")]
  ELSE [modalUI |-> modalUI_show(m, mode), status |-> hideStatus]

\* the gateway answers the request of an openModal
OpenModalFetched(t, outcome) ==
  /\ t.fn = "openModal"
  /\ LET r == openModal_resume(modalUI, status, t.data.mode, outcome)
         nfts == gateway_getAccountNonFungibles(data, now, t.address)
     IN  /\ data' = IF outcome = "fail" THEN data
                    ELSE IF t.data.mode = "in" THEN gateway_getAccountFungibles(nfts, now, t.address)
                    ELSE nfts
         /\ modalUI' = r.modalUI
         /\ status' = r.status
  /\ args' = <<>>
  /\ ret' = Undefined
  /\ tasks' = Resumed(tasks, t)
  /\ event' = Handled("openModal.fetched", outcome)
  /\ UNCHANGED <<now, localStorage, manifest, currentAccount>>

\* faulty variant of handlerAborts: the empty selection let through
handlerAbortsUnlessEmpty(account, d) == account = Null \/ d.nft = Null

\* !currentAccount || !data.nft || data.resources.length === 0
handlerAborts(account, d) == account = Null \/ d.nft = Null \/ Len(d.resources) = 0

\* resources.map(r => ({ resourceAddress: r.resourceAddress, amount: r.amount }))
resourceRefs(resources) ==
  [k \in 1..Len(resources) |->
     [resourceAddress |-> resources[k].resourceAddress, amount |-> resources[k].amount]]

\* resources.map(r => ({ ticker: r.symbol, address: r.resourceAddress, iconUrl: r.iconUrl }))
resourcesToCache(resources) ==
  [k \in 1..Len(resources) |->
     [ticker |-> resources[k].symbol, address |-> Str(resources[k].resourceAddress),
      iconUrl |-> resources[k].iconUrl]]

\* resources.map(r => r.resourceAddress)
resourceAddressesOf(resources) == [k \in 1..Len(resources) |-> resources[k].resourceAddress]

\* the manifest handleTransaction builds for a mode it knows
transactionManifest(account, d) ==
  IF d.mode = "in"
  THEN buildInCaveManifest(account.address, d.nft.collection, d.nft.id, resourceRefs(d.resources))
  ELSE buildOutCaveManifest(account.address, d.nft.collection, d.nft.id, resourceRefs(d.resources))

\* faulty variant of handleTransaction_begin: the loading flag never set
handleTransaction_beginIdle(m) == m

\* modalUI.setLoading(true) of handleTransaction
handleTransaction_begin(m) == modalUI_setLoading(m, TRUE)

\* faulty variant of handler_finally: the flag released on the success path only
handler_finallyOnSuccess(m, threw) == IF threw THEN m ELSE modalUI_setLoading(m, FALSE)

\* finally { modalUI.setLoading(false) } of handleTransaction and handleLookup
handler_finally(m, threw) == modalUI_setLoading(m, FALSE)

\* handleTransaction(data) up to its await: modalUI.onSubmit
HandleTransaction(d) ==
  /\ modalUI_enabled(modalUI)
  /\ IF handlerAborts(currentAccount, d)
     THEN /\ event' = Handled("handleTransaction", "abort")
          /\ UNCHANGED <<modalUI, status, tasks>>
     ELSE IF d.mode \notin {"in", "out"}
     THEN /\ event' = Handled("handleTransaction", "invalid mode")
          /\ modalUI' = handler_finally(handleTransaction_begin(modalUI), TRUE)
          /\ status' = setStatus("error")
          /\ UNCHANGED tasks
     ELSE /\ Runs(tasks) < MaxRuns
          /\ event' = Handled("handleTransaction", "sendTransaction")
          /\ modalUI' = handleTransaction_begin(modalUI)
          /\ tasks' = Suspended(tasks, Task("handleTransaction", "sendTransaction",
                                         currentAccount.address, d,
                                         transactionManifest(currentAccount, d)))
          /\ UNCHANGED status
  /\ args' = d
  /\ ret' = Undefined
  /\ UNCHANGED <<now, localStorage, data, manifest, currentAccount>>

\* sessionCache.remove of the two keys of the account
invalidateAccount(d, account) ==
  sessionCache_remove(sessionCache_remove(d, fungiblesKey(account.address)).data,
                      nftsKey(account.address)).data

\* faulty variant of handleTransaction_resume: the account's keys invalidated
\* before the result is looked at
handleTransaction_resumeInvalidating(ls, sd, m, st, account, d, result) ==
  LET ok == result = "ok" /\ account # Null
      added == IF d.mode = "in" /\ result = "ok"
               THEN permanentResourceCache_addMultiple(ls, resourcesToCache(d.resources), "none").ls
               ELSE ls
  IN  [ls |-> added,
       data |-> IF account # Null THEN invalidateAccount(sd, account) ELSE sd,
       modalUI |-> handler_finally(IF ok THEN modalUI_hide(m) ELSE m, ~ok),
       status |-> IF ok THEN st ELSE setStatus("error")]

\* handleTransaction after its await: the storage, the session cache, the
\* modal and the status line it leaves. currentAccount is read again here:
\* currentAccount.address throws a TypeError when it is null, after the
\* registry was written
handleTransaction_resume(ls, sd, m, st, account, d, result) ==
  IF result # "ok"
  THEN [ls |-> ls, data |-> sd, modalUI |-> handler_finally(m, TRUE), status |-> setStatus("error")]
  ELSE LET added == IF d.mode = "in"
                    THEN permanentResourceCache_addMultiple(ls, resourcesToCache(d.resources), "none").ls
                    ELSE ls
       IN  IF account = Null
           THEN [ls |-> added, data |-> sd, modalUI |-> handler_finally(m, TRUE),
                 status |-> setStatus("error")]
           ELSE [ls |-> added, data |-> invalidateAccount(sd, account),
                 modalUI |-> handler_finally(modalUI_hide(m), FALSE), status |-> st]

\* the wallet answers sendTransaction: a success, an error result, an exception
SendTransactionDone(t, result) ==
  /\ t.fn = "handleTransaction"
  /\ LET r == handleTransaction_resume(localStorage, data, modalUI, status, currentAccount,
                                       t.data, result)
     IN  /\ localStorage' = r.ls
         /\ data' = r.data
         /\ modalUI' = r.modalUI
         /\ status' = r.status
  /\ tasks' = Resumed(tasks, t)
  /\ event' = Handled("sendTransaction", IF result = "ok" THEN "ok" ELSE "failed")
  /\ args' = <<>>
  /\ ret' = Undefined
  /\ UNCHANGED <<now, manifest, currentAccount>>

\* handleLookup(data) up to its first await: modalUI.onLookup
HandleLookup(d) ==
  /\ modalUI_enabled(modalUI)
  /\ IF handlerAborts(currentAccount, d)
     THEN /\ event' = Handled("handleLookup", "abort")
          /\ UNCHANGED <<modalUI, tasks>>
     ELSE /\ Runs(tasks) < MaxRuns
          /\ event' = Handled("handleLookup", "previewTransaction")
          /\ modalUI' = modalUI_showBalancesLoading(modalUI_setLoading(modalUI, TRUE))
          /\ tasks' = Suspended(tasks, Task("handleLookup", "previewTransaction",
                                         currentAccount.address, d,
                                         buildLookCaveManifest(currentAccount.address,
                                                               d.nft.collection, d.nft.id,
                                                               resourceAddressesOf(d.resources))))
  /\ args' = d
  /\ ret' = Undefined
  /\ UNCHANGED <<now, localStorage, data, manifest, currentAccount, status>>

\* catch and finally of handleLookup
handleLookup_failed(m) == handler_finally(modalUI_showBalancesError(m), TRUE)

\* the gateway answers previewTransaction: handleLookup goes on to its second
\* await, or fails on the request or on a receipt it cannot parse
PreviewTransactionDone(t, outcome) ==
  /\ t.fn = "handleLookup"
  /\ t.pc = "previewTransaction"
  /\ IF outcome = "ok"
     THEN /\ tasks' = Suspended(Resumed(tasks, t), [t EXCEPT !.pc = "getResourceMetadata"])
          /\ UNCHANGED modalUI
     ELSE /\ tasks' = Resumed(tasks, t)
          /\ modalUI' = handleLookup_failed(modalUI)
  /\ event' = Handled("previewTransaction", outcome)
  /\ args' = <<>>
  /\ ret' = Undefined
  /\ UNCHANGED <<now, localStorage, data, manifest, currentAccount, status>>

\* the gateway answers getResourceMetadata
ResourceMetadataDone(t, outcome) ==
  /\ t.fn = "handleLookup"
  /\ t.pc = "getResourceMetadata"
  /\ IF outcome = "ok"
     THEN modalUI' = handler_finally(modalUI_renderBalances(modalUI), FALSE)
     ELSE modalUI' = handleLookup_failed(modalUI)
  /\ tasks' = Resumed(tasks, t)
  /\ event' = Handled("getResourceMetadata", outcome)
  /\ args' = <<>>
  /\ ret' = Undefined
  /\ UNCHANGED <<now, localStorage, data, manifest, currentAccount, status>>

(***************************************************************************)
(* ControllerSpec: wallet events, button clicks, modal submissions and the *)
(* answers of wallet and gateway in every order.                           *)
(***************************************************************************)
Accounts == {[address |-> "account_1"], [address |-> "account_2"]}
Modes == {"in", "out", "look"}
Nfts == {Null, [collection |-> "collection_1", id |-> "#1#"]}

\* what the user selects in the modal: nothing, or two resources that carry
\* the same ticker
Selected ==
  {<<>>,
   <<[resourceAddress |-> "resource_A", amount |-> "10", symbol |-> "XRD", iconUrl |-> Str("x")],
     [resourceAddress |-> "resource_B", amount |-> "5", symbol |-> "XRD", iconUrl |-> Null]>>}
Selections(mode) == [mode : {mode}, nft : Nfts, resources : Selected]

ControllerNext ==
  \/ \E accounts \in SeqsUpTo(Accounts, 1) : WalletData(accounts)
  \/ \E mode \in Modes : OpenModal(mode)
  \/ \E t \in BagToSet(tasks), outcome \in {"ok", "noNft", "fail"} :
       OpenModalFetched(t, outcome)
  \/ \E d \in Selections(modalUI.mode) : HandleTransaction(d)
  \/ \E t \in BagToSet(tasks), result \in {"ok", "err", "throw"} :
       SendTransactionDone(t, result)
  \/ \E d \in Selections(modalUI.mode) : HandleLookup(d)
  \/ \E t \in BagToSet(tasks), outcome \in {"ok", "fail"} :
       PreviewTransactionDone(t, outcome)
  \/ \E t \in BagToSet(tasks), outcome \in {"ok", "fail"} :
       ResourceMetadataDone(t, outcome)

ControllerSpec == Init /\ [][ControllerNext]_vars

(***************************************************************************)
(* Claims about the controller (ControllerSpec).                           *)
(***************************************************************************)
IsHandler(e) == e.op \in {"handleTransaction", "handleLookup"}

\* a wallet-signing or preview request, carrying a manifest, issued by the step
Issued(before, after) ==
  \E t \in BagToSet(after) :
    /\ t.pc \in {"sendTransaction", "previewTransaction"}
    /\ CopiesIn(t, after) > CopiesIn(t, before)

Registry(ls) == permanentResourceCache_getAll(ls, FALSE)

\* C11: a manifest is built and a sendTransaction or previewTransaction
\* request issued only by a handler invoked with an account connected, an
\* NFT selected and a non-empty resource selection; a handler invoked
\* without one of them issues nothing and leaves the session cache and the
\* registry as they were.
C11_NothingBuiltWithoutPreconditions ==
  [][/\ Issued(tasks, tasks') =>
          /\ IsHandler(event')
          /\ currentAccount # Null
          /\ args'.nft # Null
          /\ Len(args'.resources) > 0
     /\ (IsHandler(event') /\ (currentAccount = Null \/ args'.nft = Null \/ args'.resources = <<>>)) =>
          /\ tasks' = tasks
          /\ manifest' = manifest
          /\ data' = data
          /\ Registry(localStorage') = Registry(localStorage)]_vars

\* a submit with an account and an NFT but nothing selected was turned away,
\* with entries in the session cache
C11_Witness ==
  /\ IsHandler(event)
  /\ event.key = "abort"
  /\ currentAccount # Null
  /\ args.nft # Null
  /\ args.resources = <<>>
  /\ tasks = EmptyBag
  /\ DOMAIN data # {}

\* the step in which the wallet answers the sendTransaction of run t, made in
\* this mode, with a success
Succeeded(e, before, after, t, mode) ==
  /\ e.op = "sendTransaction"
  /\ e.key = "ok"
  /\ t.fn = "handleTransaction"
  /\ t.data.mode = mode
  /\ CopiesIn(t, after) < CopiesIn(t, before)

\* some registry entry holds this resource address
Registered(ls, resourceAddress) ==
  \E ticker \in DOMAIN Registry(ls) :
    Prop(Registry(ls)[ticker], "address") = Str(resourceAddress)

AccountKeys(address) == {fungiblesKey(address), nftsKey(address)}

\* C12: after a deposit the wallet reports successful, every resource of
\* the submitted list is found in the registry under its address, also when
\* two of them carry the same ticker; the two session keys of the submitting
\* account are absent and every other session entry is still present.
C12_DepositRecorded ==
  [][\A t \in BagToSet(tasks) :
       Succeeded(event', tasks, tasks', t, "in") =>
         /\ \A k \in 1..Len(t.data.resources) :
              Registered(localStorage', t.data.resources[k].resourceAddress)
         /\ AccountKeys(t.address) \cap DOMAIN data' = {}
         /\ \A key \in DOMAIN data \ AccountKeys(t.address) :
              key \in DOMAIN data' /\ data'[key] = data[key]]_vars

\* C13: after a withdrawal the wallet reports successful, the two session
\* keys of the submitting account are absent, every other session entry is
\* unchanged and the registry is exactly what it was.
C13_WithdrawalInvalidatesOnly ==
  [][\A t \in BagToSet(tasks) :
       Succeeded(event', tasks, tasks', t, "out") =>
         /\ AccountKeys(t.address) \cap DOMAIN data' = {}
         /\ \A key \in DOMAIN data \ AccountKeys(t.address) :
              key \in DOMAIN data' /\ data'[key] = data[key]
         /\ DOMAIN data' \subseteq DOMAIN data
         /\ localStorage' = localStorage]_vars

\* the wallet or the gateway answered a handler's request with a failure
Failed(e) ==
  \/ e.op = "sendTransaction" /\ e.key = "failed"
  \/ e.op \in {"previewTransaction", "getResourceMetadata"} /\ e.key = "fail"

\* C14: a failed action is terminal and leaves the stored state alone: when
\* sendTransaction returns an error or throws, or the preview fails, the
\* registry and the session cache are what they were, an error is shown, the
\* run is over and the request is not issued again; a request is issued only
\* by a submit or lookup event, one at a time.
C14_FailureIsTerminal ==
  [][/\ Failed(event') =>
          /\ localStorage' = localStorage
          /\ data' = data
          /\ IF event'.op = "sendTransaction" THEN status' = "error"
             ELSE modalUI'.balances = "error"
          /\ ~Issued(tasks, tasks')
          /\ Runs(tasks') = Runs(tasks) - 1
     /\ Issued(tasks, tasks') =>
          /\ IsHandler(event')
          /\ Outstanding(tasks') = Outstanding(tasks) + 1]_vars

\* a wallet rejection was handled while the registry and the session cache
\* held entries
C14_Witness ==
  /\ event.op = "sendTransaction"
  /\ event.key = "failed"
  /\ status = "error"
  /\ currentAccount # Null
  /\ AccountKeys(currentAccount.address) \subseteq DOMAIN data
  /\ DOMAIN Registry(localStorage) # {}

WalletNext ==
  \/ \E accounts \in SeqsUpTo(Accounts, 1) : WalletData(accounts)
  \/ OpenModal("in")
  \/ \E t \in BagToSet(tasks), outcome \in {"ok", "fail"} : OpenModalFetched(t, outcome)
  \/ \E key \in TtlKeys : SessionSet(key, Str("v1"), Infinity)
  \/ \E key \in TtlKeys : CacheSet(key, Str("v1"), Num(1), "none")
  \/ RegistryAdd("XRD", Str("addr1"), Null, "none")

WalletSpec == Init /\ [][WalletNext]_vars

\* C16: every wallet state-change event, connect or disconnect, leaves the
\* session cache empty and the registry and the persistent TTL store as they
\* were.
C16_WalletEventClearsSession ==
  [][event'.op = "walletData$" =>
       /\ data' = <<>>
       /\ localStorage' = localStorage]_vars

\* a connect was handled with the persistent store and the registry filled
C16_Witness ==
  /\ event.op = "walletData$"
  /\ event.key = "connect"
  /\ data = <<>>
  /\ Stored(localStorage, "k1") # Null
  /\ DOMAIN Registry(localStorage) # {}

(***************************************************************************)
(* EvictSpec: two keys in each TTL store under a moving clock.             *)
(***************************************************************************)
EvictKeys == {"k1", "k2"}

EvictNext ==
  \/ Tick
  \/ \E key \in EvictKeys : CacheGet(key, "none")
  \/ \E key \in EvictKeys, ttlMs \in {Num(0), Num(1)} : CacheSet(key, Str("v1"), ttlMs, "none")
  \/ \E key \in EvictKeys : CacheRemove(key)
  \/ CacheClearAll
  \/ \E key \in EvictKeys : SessionGet(key)
  \/ \E key \in EvictKeys, ttlMs \in {Num(0), Num(1)} : SessionSet(key, Str("v1"), ttlMs)
  \/ \E key \in EvictKeys : SessionRemove(key)
  \/ SessionClear

EvictSpec == Init /\ [][EvictNext]_vars

\* the entry of the in-memory store under a key, Null when there is none
Held(d, key) == IF key \in DOMAIN d THEN d[key] ELSE Null

\* the calls that may change what is stored under a key
Touches(e, key) ==
  \/ e.key = key /\ e.op \in {"cache.get", "cache.set", "cache.remove",
                               "sessionCache.get", "sessionCache.set", "sessionCache.remove"}
  \/ e.op \in {"cache.clearAll", "sessionCache.clear"}

\* C17: expiry is pull-based in both tiers. Time passing changes nothing
\* stored; an entry, expired or not, stays stored until a get, set or remove
\* of its key or a clear; a get that finds an entry written by set and
\* returns null for it has removed exactly that entry and no other, so that
\* the key holds no entry afterwards.
C17_PullBasedExpiry ==
  [][/\ event'.op = "tick" => localStorage' = localStorage /\ data' = data
     /\ \A key \in EvictKeys :
          ~Touches(event', key) =>
            /\ Stored(localStorage', key) = Stored(localStorage, key)
            /\ Held(data', key) = Held(data, key)
     /\ \A key \in EvictKeys :
          (IsCacheGet(event', key) /\ Stored(localStorage, key) # Null /\ ret' = Null) =>
            /\ Stored(localStorage', key) = Null
            /\ \A other \in EvictKeys \ {key} :
                 Stored(localStorage', other) = Stored(localStorage, other)
            /\ data' = data
     /\ \A key \in EvictKeys :
          (IsSessionGet(event', key) /\ key \in DOMAIN data /\ ret' = Null) =>
            /\ DOMAIN data' = DOMAIN data \ {key}
            /\ \A other \in DOMAIN data' : data'[other] = data[other]
            /\ localStorage' = localStorage]_vars

\* a get has just evicted the expired entry of k1 from the persistent store
\* while the expired entry of k2 is still stored, in both tiers
C17_Witness ==
  /\ IsCacheGet(event, "k1")
  /\ ret = Null
  /\ Stored(localStorage, "k1") = Null
  /\ Stored(localStorage, "k2") # Null
  /\ Greater(now, Prop(JSON_parse(Stored(localStorage, "k2")).v, "expiry"))
  /\ "k2" \in DOMAIN data
  /\ sessionExpired(now, data["k2"].expiry)

\* C18: a transaction the wallet reports successful is handled as a success
\* whatever wallet events arrived while the request was in flight: the modal
\* is hidden, no error status is shown and the two session keys of the
\* account the manifest was built with are absent.
C18_SuccessHandledAsSuccess ==
  [][\A t \in BagToSet(tasks), mode \in {"in", "out"} :
       Succeeded(event', tasks, tasks', t, mode) =>
         /\ ~modalUI'.visible
         /\ status' # "error"
         /\ AccountKeys(t.address) \cap DOMAIN data' = {}]_vars

\* C19: the modal is never visible while no account is connected.
C19_ModalHiddenWithoutAccount == currentAccount = Null => ~modalUI.visible

(***************************************************************************)
(* ReleaseSpec: the two handlers with the wallet and the gateway answering *)
(* every request they are sent. The event loop runs the continuation of an *)
(* await once its promise settles, which is weak fairness of the answers.  *)
(***************************************************************************)
Answered ==
  \/ \E t \in BagToSet(tasks), result \in {"ok", "err", "throw"} : SendTransactionDone(t, result)
  \/ \E t \in BagToSet(tasks), outcome \in {"ok", "fail"} : PreviewTransactionDone(t, outcome)
  \/ \E t \in BagToSet(tasks), outcome \in {"ok", "fail"} : ResourceMetadataDone(t, outcome)

ReleaseNext ==
  \/ \E accounts \in SeqsUpTo({[address |-> "account_1"]}, 1) : WalletData(accounts)
  \/ \E mode \in {"in", "look"} : OpenModal(mode)
  \/ \E t \in BagToSet(tasks) : OpenModalFetched(t, "ok")
  \/ \E d \in Selections(modalUI.mode) : d.nft # Null /\ HandleTransaction(d)
  \/ \E d \in Selections(modalUI.mode) : d.nft # Null /\ HandleLookup(d)
  \/ Answered

ReleaseSpec == Init /\ [][ReleaseNext]_vars /\ WF_vars(Answered)

\* C20: the loading state is always released. Once a handler has set the
\* flag, the flag is cleared again when the wallet or the gateway has
\* answered, on the success path, on a rejection or failed preview and on an
\* exception after the request; no run ends with the flag still set.
C20_LoadingReleased ==
  /\ modalUI.loading ~> ~modalUI.loading
  /\ [][Runs(tasks') < Runs(tasks) => ~modalUI'.loading]_vars

\* a handler is suspended at its request with the flag set
C20_Witness ==
  /\ modalUI.loading
  /\ Runs(tasks) = 1
  /\ Outstanding(tasks) = 1

====
